---- MODULE Spec2Model ----
(***************************************************************************)
(* A model of plex_check (src/main.py): the JSON snapshot cache            *)
(* (load_cache, save_cache, refresh_cache), the matching functions         *)
(* (search_exact, search_fuzzy), the per-query sequencing (run_search)     *)
(* and the process entry point (the second main, which replaces the        *)
(* first at import time).                                                  *)
(*                                                                         *)
(* Strings are sequences of one-character strings, so that strip, lower    *)
(* and split are computed.  The catalog service, the clock, the disk and   *)
(* the keyboard are the environment: every call of theirs draws its        *)
(* outcome with \E.                                                        *)
(***************************************************************************)
EXTENDS Integers, Sequences, FiniteSets, TLC

VARIABLES
    file,    \* the content of CACHE_FILE on disk
    now,     \* the clock, time.time(), in seconds
    ticks,   \* how often the clock was advanced (bounds the model)
    pc,      \* the position of the process in main
    args,    \* the parsed command line
    cache,   \* main's local variable cache
    last     \* what the last call of refresh_cache / run_search did

vars == <<file, now, ticks, pc, args, cache, last>>

(***************************************************************************)
(* Bounds of the model.                                                    *)
(***************************************************************************)
MaxTicks == 2
MaxHits == 2
MaxLoopHits == 1
MaxItems == 2

(***************************************************************************)
(* Program constants.                                                      *)
(***************************************************************************)
CACHE_TTL == 60 * 60 * 6

DefaultThreshold == 85

DisplayCap == 20

\* The clock when the model starts: any time later than CACHE_TTL after the
\* epoch, as every real clock is.
StartTime == 2 * CACHE_TTL

\* The steps by which the clock advances.
TimeSteps == {1, CACHE_TTL - 1}

(***************************************************************************)
(* Strings.                                                                *)
(***************************************************************************)
\* str.lower on one character
LowerChar(c) ==
    CASE c = "A" -> "a"
      [] c = "B" -> "b"
      [] c = "E" -> "e"
      [] c = "X" -> "x"
      [] c = "I" -> "i"
      [] c = "T" -> "t"
      [] OTHER -> c

\* str.lower
Lower(s) == [i \in 1..Len(s) |-> LowerChar(s[i])]

IsSpace(c) == c = " "

RECURSIVE LStrip(_)
LStrip(s) ==
    IF s # <<>> /\ IsSpace(Head(s)) THEN LStrip(Tail(s)) ELSE s

RECURSIVE RStrip(_)
RStrip(s) ==
    IF s # <<>> /\ IsSpace(s[Len(s)]) THEN RStrip(SubSeq(s, 1, Len(s) - 1)) ELSE s

\* str.strip
Strip(s) == RStrip(LStrip(s))

(***************************************************************************)
(* The catalog service (plexapi objects).  A year of {} is an item without *)
(* a year attribute (getattr(item, "year", None) is None).                 *)
(***************************************************************************)
M100 == [title |-> <<"a", " ", "b">>, year |-> {1993}, type |-> "movie",
         ratingKey |-> 100, librarySectionTitle |-> "Movies"]

M101 == [title |-> <<"B", " ", "a", " ">>, year |-> {}, type |-> "movie",
         ratingKey |-> 101, librarySectionTitle |-> "Movies"]

S200 == [title |-> <<"a", " ", "b", "b">>, year |-> {2001}, type |-> "show",
         ratingKey |-> 200, librarySectionTitle |-> "Shows"]

\* section.key of the sections the service has
SectionKeys == {1, 2}

\* plex.library.sectionByID(k) for a section the service has
Section(k) ==
    IF k = 1
    THEN [key |-> 1, title |-> "Movies", type |-> "movie", all |-> <<M100, M101>>]
    ELSE [key |-> 2, title |-> "Shows", type |-> "show", all |-> <<S200>>]

\* str(n) of a section key or id
KeyStr(n) ==
    CASE n = 1 -> "1"
      [] n = 2 -> "2"
      [] OTHER -> "3"

\* what plex.library.sections() lists
Listing == <<1, 2>>

(***************************************************************************)
(* Python values and JSON text.  A snapshot is a dict                      *)
(*   {"updated": t, "libraries": {key: {"title", "type", "items"}}}        *)
(* modelled as [t, keys, updated, libraries] where libraries is the        *)
(* sequence of the dict's entries in insertion order.  Any other value a   *)
(* file may parse to is either a dict without "libraries" or not a dict.   *)
(***************************************************************************)
Dict(keys, updated, libraries) ==
    [t |-> "dict", keys |-> keys, updated |-> updated, libraries |-> libraries]

\* {"updated": 0, "libraries": {}}
EmptySnapshot == Dict({"updated", "libraries"}, 0, <<>>)

\* a value that is not a dict, such as the list []
NotADict == [t |-> "list", keys |-> {}, updated |-> 0, libraries |-> <<>>]

JNull == [j |-> "null", v |-> <<>>]
JNum(n) == [j |-> "number", v |-> n]
JStr(s) == [j |-> "string", v |-> s]
JArr(elems) == [j |-> "array", v |-> elems]
\* an object: the sequence of its members <<name, value>>
JObj(members) == [j |-> "object", v |-> members]

\* JItem writing 0 for a missing year
JItem_yearzero(it) ==
    JObj(<< <<"title", JStr(it.title)>>,
            <<"year", IF it.year = {} THEN JNum(0)
                      ELSE JNum(CHOOSE y \in it.year : TRUE)>>,
            <<"type", JStr(it.type)>>,
            <<"ratingKey", JNum(it.ratingKey)>> >>)

JItem(it) ==
    JObj(<< <<"title", JStr(it.title)>>,
            <<"year", IF it.year = {} THEN JNull
                      ELSE JNum(CHOOSE y \in it.year : TRUE)>>,
            <<"type", JStr(it.type)>>,
            <<"ratingKey", JNum(it.ratingKey)>> >>)

JLibrary(lib) ==
    JObj(<< <<"title", JStr(lib.title)>>,
            <<"type", JStr(lib.type)>>,
            <<"items", JArr([i \in 1..Len(lib.items) |-> JItem(lib.items[i])])>> >>)

\* json.dumps(cache) of a dict
json_dumps(c) ==
    JObj(
      (IF "updated" \in c.keys THEN << <<"updated", JNum(c.updated)>> >> ELSE <<>>)
      \o
      (IF "libraries" \in c.keys
       THEN << <<"libraries",
                 JObj([i \in 1..Len(c.libraries) |->
                         <<c.libraries[i].key, JLibrary(c.libraries[i])>>])>> >>
       ELSE <<>>))

Names(obj) == {obj.v[i][1] : i \in 1..Len(obj.v)}

\* the value of the last member called name (json.loads keeps the last)
Member(obj, name) ==
    LET i == CHOOSE k \in 1..Len(obj.v) :
                 /\ obj.v[k][1] = name
                 /\ \A m \in (k + 1)..Len(obj.v) : obj.v[m][1] # name
    IN obj.v[i][2]

PyItem(o) ==
    [title |-> Member(o, "title").v,
     year |-> IF Member(o, "year").j = "null" THEN {} ELSE {Member(o, "year").v},
     type |-> Member(o, "type").v,
     ratingKey |-> Member(o, "ratingKey").v]

PyLibrary(name, o) ==
    [key |-> name,
     title |-> Member(o, "title").v,
     type |-> Member(o, "type").v,
     items |-> LET a == Member(o, "items").v
               IN [i \in 1..Len(a) |-> PyItem(a[i])]]

\* json.loads(text) of a complete JSON document
json_loads(doc) ==
    IF doc.j # "object" THEN NotADict
    ELSE Dict(Names(doc) \cap {"updated", "libraries"},
              IF "updated" \in Names(doc) THEN Member(doc, "updated").v ELSE 0,
              IF "libraries" \in Names(doc)
              THEN LET ls == Member(doc, "libraries").v
                   IN [i \in 1..Len(ls) |-> PyLibrary(ls[i][1], ls[i][2])]
              ELSE <<>>)

(***************************************************************************)
(* The cache file.  kind is "missing" (no file), "unreadable" (read_text   *)
(* raises), "garbage" (text that is not JSON), "truncated" (a proper       *)
(* prefix of a document, left by a write that did not finish: never a      *)
(* JSON document, its brackets are open) or "json" (a complete document,   *)
(* doc).                                                                   *)
(***************************************************************************)
File(kind, doc) == [kind |-> kind, doc |-> doc]

NoFile == File("missing", JNull)

load_cache(f) ==
    IF f.kind = "missing" THEN EmptySnapshot
    ELSE IF f.kind = "json" THEN json_loads(f.doc)
    ELSE EmptySnapshot

\* save_cache leaving the file alone when the snapshot has no section
save_cache_keep(f, c, w) ==
    CASE w = "ok" -> [file |-> IF c.libraries = <<>> THEN f
                               ELSE File("json", json_dumps(c)),
                      raised |-> "none"]
      [] w = "open_fails" -> [file |-> f, raised |-> "error"]
      [] w = "write_fails" -> [file |-> File("truncated", JNull), raised |-> "error"]
      [] OTHER -> [file |-> File("truncated", JNull), raised |-> "interrupt"]

\* CACHE_FILE.write_text(json.dumps(cache)): open(mode="w") truncates the file,
\* then the text is written.  w is what the disk (or an interrupt) does:
\*   "ok"          the text is written whole
\*   "open_fails"  open raises OSError, the file is as before
\*   "write_fails" the write raises OSError after the truncation
\*   "interrupt"   KeyboardInterrupt after the truncation
save_cache(f, c, w) ==
    CASE w = "ok" -> [file |-> File("json", json_dumps(c)), raised |-> "none"]
      [] w = "open_fails" -> [file |-> f, raised |-> "error"]
      [] w = "write_fails" -> [file |-> File("truncated", JNull), raised |-> "error"]
      [] OTHER -> [file |-> File("truncated", JNull), raised |-> "interrupt"]

WriteOutcomes == {"ok", "open_fails", "write_fails", "interrupt"}

\* libraries[key] = value on a dict kept as its entries in insertion order
DictSet(libs, entry) ==
    IF \E i \in 1..Len(libs) : libs[i].key = entry.key
    THEN [i \in 1..Len(libs) |-> IF libs[i].key = entry.key THEN entry ELSE libs[i]]
    ELSE Append(libs, entry)

\* the dict an item is cached as
CachedItem(item) ==
    [title |-> item.title, year |-> item.year, type |-> item.type,
     ratingKey |-> item.ratingKey]

\* the entry libraries[str(section.key)] of a section
LibraryEntry(sec) ==
    [key |-> KeyStr(sec.key), title |-> sec.title, type |-> sec.type,
     items |-> [i \in 1..Len(sec.all) |-> CachedItem(sec.all[i])]]

\* BuildLibraries with break for continue: the loop ends at the first section
\* that fails
RECURSIVE BuildLibraries_break(_, _, _)
BuildLibraries_break(listing, failing, libs) ==
    IF listing = <<>> \/ Head(listing) \in failing THEN libs
    ELSE BuildLibraries_break(Tail(listing), failing,
                              DictSet(libs, LibraryEntry(Section(Head(listing)))))

\* the loop over plex.library.sections(): listing is what sections() returned,
\* failing the sections whose section.all() (or an item of it) raises
RECURSIVE BuildLibraries(_, _, _)
BuildLibraries(listing, failing, libs) ==
    IF listing = <<>> THEN libs
    ELSE BuildLibraries(Tail(listing), failing,
                        IF Head(listing) \in failing THEN libs
                        ELSE DictSet(libs, LibraryEntry(Section(Head(listing)))))

\* CacheHit with the comparison turned round: a fresh snapshot is rebuilt
CacheHit_inverted(c, t, force) ==
    ~force /\ t - (IF "updated" \in c.keys THEN c.updated ELSE 0) > CACHE_TTL

\* CacheHit with <= for <: a snapshot aged exactly CACHE_TTL is still a hit
CacheHit_inclusive(c, t, force) ==
    ~force /\ t - (IF "updated" \in c.keys THEN c.updated ELSE 0) <= CACHE_TTL

\* not force and (now - cache.get("updated", 0) < CACHE_TTL)
CacheHit(c, t, force) ==
    ~force /\ t - (IF "updated" \in c.keys THEN c.updated ELSE 0) < CACHE_TTL

\* What the service and the disk do during one refresh_cache call:
\*   sections  what plex.library.sections() does
\*   listing   the sections it lists
\*   failing   the sections whose enumeration raises an Exception
\*   write     what the write of the cache file does
RefreshEnv(sections, failing, write) ==
    [sections |-> sections, listing |-> Listing, failing |-> failing, write |-> write]

\* the service and the disk are not used
NoEnv == RefreshEnv("none", {}, "none")

\* refresh_cache(force) at time t with the cache file f.  The result:
\*   raised  "none", or "error" / "interrupt" when the call raises
\*   ret     the snapshot returned (when raised = "none")
\*   file    the cache file afterwards
\*   calls   the number of calls made to the catalog service
\*   saved   what save_cache did ("none" when it was not called)
\*   sections  what plex.library.sections() did ("none" when it was not called)
\*   listed  the sections it returned, failed those of them whose enumeration
\*           raised
refresh_cache(f, t, force, env) ==
    LET loaded == load_cache(f)
        none == [raised |-> "none", ret |-> loaded, file |-> f, calls |-> 0,
                 saved |-> "none", loaded |-> loaded, sections |-> "none",
                 listed |-> <<>>, failed |-> {}]
    IN IF ~force /\ loaded.t # "dict"
       THEN [none EXCEPT !.raised = "error"]
       ELSE IF CacheHit(loaded, t, force) THEN none
       ELSE IF env.sections # "ok"
       THEN [none EXCEPT !.raised = env.sections, !.calls = 1,
                         !.sections = env.sections]
       ELSE LET libraries == BuildLibraries(env.listing, env.failing, <<>>)
                new == Dict({"updated", "libraries"}, t, libraries)
                s == save_cache(f, new, env.write)
            IN [raised |-> s.raised, ret |-> new, file |-> s.file,
                calls |-> 1 + Len(env.listing), saved |-> env.write,
                loaded |-> loaded, sections |-> "ok", listed |-> env.listing,
                failed |-> env.failing]

(***************************************************************************)
(* fuzz.token_sort_ratio                                                   *)
(***************************************************************************)
\* ord(c) for the characters of the model
Ord(c) ==
    CASE c = " " -> 32
      [] c = "A" -> 65
      [] c = "B" -> 66
      [] c = "E" -> 69
      [] c = "I" -> 73
      [] c = "T" -> 84
      [] c = "X" -> 88
      [] c = "a" -> 97
      [] c = "b" -> 98
      [] c = "e" -> 101
      [] c = "i" -> 105
      [] c = "t" -> 116
      [] OTHER -> 120

\* s < t on str
RECURSIVE StrLess(_, _)
StrLess(s, t) ==
    IF t = <<>> THEN FALSE
    ELSE IF s = <<>> THEN TRUE
    ELSE IF Head(s) # Head(t) THEN Ord(Head(s)) < Ord(Head(t))
    ELSE StrLess(Tail(s), Tail(t))

\* str.split(): the maximal runs of non-space characters; cur is the run so far
RECURSIVE SplitFrom(_, _)
SplitFrom(s, cur) ==
    IF s = <<>> THEN (IF cur = <<>> THEN <<>> ELSE <<cur>>)
    ELSE IF IsSpace(Head(s))
    THEN (IF cur = <<>> THEN <<>> ELSE <<cur>>) \o SplitFrom(Tail(s), <<>>)
    ELSE SplitFrom(Tail(s), Append(cur, Head(s)))

Split(s) == SplitFrom(s, <<>>)

\* tok put into the sorted sequence toks, after the tokens not greater than it
RECURSIVE InsertToken(_, _)
InsertToken(toks, tok) ==
    IF toks = <<>> THEN <<tok>>
    ELSE IF StrLess(tok, Head(toks)) THEN <<tok>> \o toks
    ELSE <<Head(toks)>> \o InsertToken(Tail(toks), tok)

\* sorted(tokens)
RECURSIVE SortTokens(_)
SortTokens(toks) ==
    IF toks = <<>> THEN <<>>
    ELSE InsertToken(SortTokens(SubSeq(toks, 1, Len(toks) - 1)), toks[Len(toks)])

\* " ".join(tokens)
RECURSIVE Join(_)
Join(toks) ==
    IF toks = <<>> THEN <<>>
    ELSE IF Len(toks) = 1 THEN toks[1]
    ELSE toks[1] \o <<" ">> \o Join(Tail(toks))

Max(a, b) == IF a >= b THEN a ELSE b

\* the length of a longest common subsequence
RECURSIVE LCS(_, _)
LCS(s, t) ==
    IF s = <<>> \/ t = <<>> THEN 0
    ELSE IF Head(s) = Head(t) THEN 1 + LCS(Tail(s), Tail(t))
    ELSE Max(LCS(Tail(s), t), LCS(s, Tail(t)))

\* fuzz.ratio(s, t) = 100 * (1 - indel(s, t) / (len(s) + len(t))), where
\* indel(s, t) = len(s) + len(t) - 2 * LCS(s, t); a float, kept here as the
\* fraction num / den (100 for two empty strings)
Ratio(s, t) ==
    IF Len(s) + Len(t) = 0 THEN [num |-> 100, den |-> 1]
    ELSE [num |-> 200 * LCS(s, t), den |-> Len(s) + Len(t)]

token_sort_ratio(s, t) ==
    Ratio(Join(SortTokens(Split(s))), Join(SortTokens(Split(t))))

\* ScoreAtLeast with <= for >=: the items not above the threshold are kept
ScoreAtLeast_below(score, threshold) == score.num <= threshold * score.den

\* score >= threshold
ScoreAtLeast(score, threshold) == score.num >= threshold * score.den

\* a.score > b.score
ScoreGreater(a, b) == a.num * b.den > b.num * a.den

(***************************************************************************)
(* The answers of the catalog service to a search.                         *)
(***************************************************************************)
Handles == {M100, M101}

RECURSIVE SeqsUpTo(_, _)
SeqsUpTo(S, n) ==
    IF n = 0 THEN {<<>>}
    ELSE LET shorter == SeqsUpTo(S, n - 1)
         IN shorter \cup {Append(q, x) : q \in shorter, x \in S}

\* the hit lists of at most n hits
HitLists(n) == SeqsUpTo(Handles, n)

Answer(res, hits) == [res |-> res, hits |-> hits]

\* no call was made
NoCall == Answer("none", <<>>)

\* what a search call may do: return hits, raise an error, or be interrupted
Answers(n) ==
    {Answer("ok", h) : h \in HitLists(n)}
        \cup {Answer("error", <<>>), Answer("interrupt", <<>>)}

(***************************************************************************)
(* search_exact and search_fuzzy.  None is the absent --section.           *)
(***************************************************************************)
None == 0

\* the matches.append(...) loop of search_exact
RECURSIVE ExactMatches(_, _)
ExactMatches(results, title_norm) ==
    IF results = <<>> THEN <<>>
    ELSE LET r == Head(results)
             rest == ExactMatches(Tail(results), title_norm)
         IN IF Lower(Strip(r.title)) = title_norm
            THEN <<[title |-> r.title, year |-> r.year, type |-> r.type,
                    ratingKey |-> r.ratingKey, library |-> r.librarySectionTitle]>>
                 \o rest
            ELSE rest

\* search_exact(title, section_id): first is the answer to the call in the try
\* block (sectionByID(section_id) raises for a section the service does not
\* have), second the answer to the plex.search(title) of the except block.
\* The result: raised, matches, calls (service calls made), fallback (whether
\* the except block ran).
search_exact(title, section_id, first, second) ==
    LET title_norm == Lower(Strip(title))
        tried == IF section_id # None /\ section_id \notin SectionKeys
                 THEN Answer("error", <<>>) ELSE first
    IN IF tried.res = "interrupt"
       THEN [raised |-> "interrupt", matches |-> <<>>, calls |-> 1, fallback |-> FALSE]
       ELSE IF tried.res = "ok"
       THEN [raised |-> "none", matches |-> ExactMatches(tried.hits, title_norm),
             calls |-> 1, fallback |-> FALSE]
       ELSE IF second.res = "ok"
       THEN [raised |-> "none", matches |-> ExactMatches(second.hits, title_norm),
             calls |-> 2, fallback |-> TRUE]
       ELSE [raised |-> second.res, matches |-> <<>>, calls |-> 2, fallback |-> TRUE]

\* cache["libraries"].get(key): the entries with that key (at most one)
LibraryGet(libs, key) == SelectSeq(libs, LAMBDA lib : lib.key = key)

\* items.extend(lib["items"]) over cache["libraries"].values()
RECURSIVE AllItems(_)
AllItems(libs) ==
    IF libs = <<>> THEN <<>> ELSE Head(libs).items \o AllItems(Tail(libs))

\* Candidates taking, without a section_id, the first section only
Candidates_first(section_id, c) ==
    IF section_id # None
    THEN LET lib == LibraryGet(c.libraries, KeyStr(section_id))
         IN IF lib # <<>> THEN lib[1].items ELSE <<>>
    ELSE IF c.libraries = <<>> THEN <<>> ELSE c.libraries[1].items

\* the candidates of search_fuzzy
Candidates(section_id, c) ==
    IF section_id # None
    THEN LET lib == LibraryGet(c.libraries, KeyStr(section_id))
         IN IF lib # <<>> THEN lib[1].items ELSE <<>>
    ELSE AllItems(c.libraries)

\* the found.append(...) loop of search_fuzzy
RECURSIVE Found(_, _, _)
Found(items, title_norm, threshold) ==
    IF items = <<>> THEN <<>>
    ELSE LET it == Head(items)
             score == token_sort_ratio(title_norm, Lower(Strip(it.title)))
             rest == Found(Tail(items), title_norm, threshold)
         IN IF ScoreAtLeast(score, threshold)
            THEN <<[title |-> it.title, year |-> it.year, score |-> score,
                    type |-> it.type, ratingKey |-> it.ratingKey]>> \o rest
            ELSE rest

\* InsertByScore with x put before its equals: an unstable sort
RECURSIVE InsertByScore_before(_, _)
InsertByScore_before(sorted, x) ==
    IF sorted = <<>> THEN <<x>>
    ELSE IF ~ScoreGreater(Head(sorted).score, x.score) THEN <<x>> \o sorted
    ELSE <<Head(sorted)>> \o InsertByScore_before(Tail(sorted), x)

\* x put into the sequence sorted by descending score, after its equals
RECURSIVE InsertByScore(_, _)
InsertByScore(sorted, x) ==
    IF sorted = <<>> THEN <<x>>
    ELSE IF ScoreGreater(x.score, Head(sorted).score) THEN <<x>> \o sorted
    ELSE <<Head(sorted)>> \o InsertByScore(Tail(sorted), x)

\* sorted(found, key=lambda x: x["score"], reverse=True): stable
RECURSIVE SortByScore(_)
SortByScore(found) ==
    IF found = <<>> THEN <<>>
    ELSE InsertByScore(SortByScore(SubSeq(found, 1, Len(found) - 1)),
                       found[Len(found)])

\* A list object.  ref is the index in cache["libraries"] of the entry whose
\* "items" list it is, 0 for a list that no snapshot holds.
ListObj(ref, elems) == [ref |-> ref, elems |-> elems]

\* items.extend(more): the list grows in place, and with it the snapshot c when
\* the list is one of c's
Extend(c, items, more) ==
    [c |-> IF items.ref = 0 THEN c
           ELSE [c EXCEPT !.libraries[items.ref].items = @ \o more],
     items |-> ListObj(items.ref, items.elems \o more)]

\* for lib in cache["libraries"].values(): items.extend(lib["items"]), from
\* the i-th entry on
RECURSIVE ExtendAll(_, _, _)
ExtendAll(c, items, i) ==
    IF i > Len(c.libraries) THEN [c |-> c, items |-> items]
    ELSE LET e == Extend(c, items, c.libraries[i].items)
         IN ExtendAll(e.c, e.items, i + 1)

\* the index of the entry cache["libraries"].get(key) finds, 0 for none
LibraryIndex(libs, key) ==
    IF \E i \in 1..Len(libs) : libs[i].key = key
    THEN CHOOSE i \in 1..Len(libs) : libs[i].key = key
    ELSE 0

\* Gather with items bound to the first section's list, not to a new one: the
\* other sections' items are appended to the snapshot's own list
Gather_alias(section_id, c) ==
    IF section_id # None
    THEN LET k == LibraryIndex(c.libraries, KeyStr(section_id))
         IN [c |-> c,
             items |-> IF k # 0 THEN ListObj(k, c.libraries[k].items)
                       ELSE ListObj(0, <<>>)]
    ELSE IF c.libraries = <<>> THEN [c |-> c, items |-> ListObj(0, <<>>)]
    ELSE ExtendAll(c, ListObj(1, c.libraries[1].items), 2)

\* The candidate gathering of search_fuzzy with the objects it touches:
\* items = [] is a new list; with a section_id, items is rebound to the
\* section's own list, which is only read afterwards; without one, the new
\* list is extended.  The result: the list items and the snapshot afterwards.
Gather(section_id, c) ==
    IF section_id # None
    THEN LET k == LibraryIndex(c.libraries, KeyStr(section_id))
         IN [c |-> c,
             items |-> IF k # 0 THEN ListObj(k, c.libraries[k].items)
                       ELSE ListObj(0, <<>>)]
    ELSE ExtendAll(c, ListObj(0, <<>>), 1)

\* search_fuzzy(title, threshold, section_id, cache) with a cache that is a
\* dict: cache["libraries"] raises KeyError when the dict has no "libraries".
\* The result: raised, found (the list returned) and cache (the dict passed
\* in, as it is after the call).
search_fuzzy(title, threshold, section_id, c) ==
    IF "libraries" \notin c.keys
    THEN [raised |-> "error", found |-> <<>>, cache |-> c]
    ELSE [raised |-> "none",
          found |-> SortByScore(Found(Candidates(section_id, c),
                                      Lower(Strip(title)), threshold)),
          cache |-> Gather(section_id, c).c]

(***************************************************************************)
(* run_search                                                              *)
(***************************************************************************)
\* results[:n]
Take(seq, n) == SubSeq(seq, 1, IF Len(seq) < n THEN Len(seq) ELSE n)

\* EmitExact printing the first match only
EmitExact_first(matches) == Take(matches, 1)

\* for m in exact: print(...): the lines printed for the exact matches
EmitExact(matches) == matches

\* run_search(title, args, cache).  first and second are the service's answers
\* to search_exact's calls, raw its answer to the plex.search(title) of the
\* last stage.  The result:
\*   raised   "none", or "error" / "interrupt" when the call raises
\*   outcome  the branch that returned: "ExactFound", "FuzzyFound",
\*            "FuzzyEmpty", "RawShown", "RawEmpty" ("none" when it raised)
\*   exactok  whether search_exact returned
\*   exact    what it returned
\*   emitted  the result lines printed
\*   fuzzy    whether search_fuzzy was called
\*   rawcall  whether the raw server search was issued
\*   cache    the dict passed in, as it is after the call
run_search(title, a, c, first, second, raw) ==
    LET e == search_exact(title, a.section, first, second)
        f == search_fuzzy(title, a.threshold, a.section, c)
        base == [raised |-> "none", outcome |-> "none", exactok |-> e.raised = "none",
                 exact |-> e.matches, emitted |-> <<>>, fuzzy |-> FALSE,
                 rawcall |-> FALSE, cache |-> c]
    IN IF e.raised # "none" THEN [base EXCEPT !.raised = e.raised]
       ELSE IF e.matches # <<>>
       THEN [base EXCEPT !.outcome = "ExactFound", !.emitted = EmitExact(e.matches)]
       ELSE IF a.fuzzy
       THEN IF f.raised # "none"
            THEN [base EXCEPT !.raised = f.raised, !.fuzzy = TRUE]
            ELSE IF f.found # <<>>
            THEN [base EXCEPT !.outcome = "FuzzyFound", !.fuzzy = TRUE,
                              !.emitted = Take(f.found, DisplayCap),
                              !.cache = f.cache]
            ELSE [base EXCEPT !.outcome = "FuzzyEmpty", !.fuzzy = TRUE,
                              !.cache = f.cache]
       ELSE IF raw.res # "ok"
       THEN [base EXCEPT !.raised = raw.res, !.rawcall = TRUE]
       ELSE IF raw.hits = <<>>
       THEN [base EXCEPT !.outcome = "RawEmpty", !.rawcall = TRUE]
       ELSE [base EXCEPT !.outcome = "RawShown", !.rawcall = TRUE,
                         !.emitted = Take(raw.hits, DisplayCap)]

(***************************************************************************)
(* The process: main.                                                      *)
(***************************************************************************)
\* the titles a user asks for
Titles == {<<"A", " ", "b", " ">>, <<"b">>}

\* the lines a user types at the prompt
Lines == Titles \cup {<<>>, <<"E", "x", "i", "t", " ">>, <<"q", "u", "i", "t">>}

\* argparse's result; oneshot is whether --title was given (its value is
\* read once, by OneShot; --refresh is read once, by Start)
ArgSets ==
    [fuzzy : BOOLEAN, section : {None, 1, 3},
     threshold : {DefaultThreshold}, oneshot : BOOLEAN]

\* the cache files the process may find when the model starts: none, an
\* unreadable one, text that is not JSON, the document [], and the document
\* {"updated": StartTime}
InitFiles ==
    {NoFile, File("unreadable", JNull), File("garbage", JNull),
     File("json", JArr(<<>>)),
     File("json", JObj(<< <<"updated", JNum(StartTime)>> >>))}

NoArgs ==
    [fuzzy |-> FALSE, section |-> None,
     threshold |-> DefaultThreshold, oneshot |-> FALSE]

Init ==
    /\ file \in InitFiles
    /\ now = StartTime
    /\ ticks = 0
    /\ pc = "off"
    /\ args = NoArgs
    /\ cache = EmptySnapshot
    /\ last = [op |-> "none"]

\* the clock advances
Tick ==
    /\ pc \in {"force", "load", "ready"}
    /\ ticks < MaxTicks
    /\ \E d \in TimeSteps : now' = now + d
    /\ ticks' = ticks + 1
    /\ UNCHANGED <<file, pc, args, cache, last>>

\* the process is started: parser.parse_args() and the test of args.refresh
Start ==
    /\ pc = "off"
    /\ \E a \in ArgSets : args' = a
    /\ \E refresh \in BOOLEAN : pc' = IF refresh THEN "force" ELSE "load"
    /\ cache' = EmptySnapshot
    /\ last' = [op |-> "start"]
    /\ UNCHANGED <<file, now, ticks>>

\* what the service and the disk may do during refresh_cache(force): an
\* outcome is drawn only for a call that is made
RefreshEnvs(force) ==
    IF refresh_cache(file, now, force, NoEnv).calls = 0
    THEN {NoEnv}
    ELSE {RefreshEnv(sec, {}, "none") : sec \in {"error", "interrupt"}}
           \cup {RefreshEnv("ok", failing, w) :
                     failing \in SUBSET SectionKeys, w \in WriteOutcomes}

\* a call of refresh_cache by main, which handles no exception of it
CallRefresh(force, env, next) ==
    LET r == refresh_cache(file, now, force, env)
    IN /\ file' = r.file
       /\ last' = [op |-> "refresh", force |-> force, at |-> now, before |-> file,
                   r |-> r]
       /\ pc' = IF r.raised = "none" THEN next ELSE "crashed"
       /\ cache' = IF r.raised = "none" /\ ~force THEN r.ret ELSE cache
       /\ UNCHANGED <<now, ticks, args>>

\* refresh_cache(force=True), when args.refresh
ForceRefresh ==
    /\ pc = "force"
    /\ \E env \in RefreshEnvs(TRUE) : CallRefresh(TRUE, env, "load")

\* cache = refresh_cache()
StartupRefresh ==
    /\ pc = "load"
    /\ \E env \in RefreshEnvs(FALSE) : CallRefresh(FALSE, env, "ready")

\* the answers the service may give to the second call of search_exact, given
\* its answer to the first: an answer is drawn only for a call that is made
SecondAnswers(title, a, first, n) ==
    IF search_exact(title, a.section, first, NoCall).fallback
    THEN Answers(n) ELSE {NoCall}

\* the same for the raw server search of run_search
RawAnswers(title, a, first, second, n) ==
    LET e == search_exact(title, a.section, first, second)
    IN IF e.raised = "none" /\ e.matches = <<>> /\ ~a.fuzzy
       THEN Answers(n) ELSE {NoCall}

\* a call of run_search by main
CallSearch(title, onInterrupt) ==
    \E first \in Answers(MaxLoopHits) :
      \E second \in SecondAnswers(title, args, first, MaxLoopHits) :
        \E raw \in RawAnswers(title, args, first, second, MaxLoopHits) :
        LET r == run_search(title, args, cache, first, second, raw)
        IN /\ last' = [op |-> "search", title |-> title, r |-> r]
           /\ pc' = CASE r.raised = "error" -> "crashed"
                      [] r.raised = "interrupt" -> onInterrupt
                      [] OTHER -> IF args.oneshot THEN "exited" ELSE "searched"
           /\ cache' = r.cache
           /\ UNCHANGED <<file, now, ticks, args>>

\* if args.title: run_search(args.title.strip(), args, cache); return
OneShot ==
    /\ pc = "ready"
    /\ args.oneshot
    /\ \E title \in Titles : CallSearch(Strip(title), "crashed")

\* one turn of the interactive loop: q = input("> ").strip()
ReadLine ==
    /\ pc = "ready"
    /\ ~args.oneshot
    /\ \E line \in Lines :
          LET q == Strip(line)
          IN IF q = <<>>
             THEN /\ pc' = "searched"
                  /\ last' = [op |-> "blank"]
                  /\ UNCHANGED <<file, now, ticks, args, cache>>
             ELSE IF Lower(q) \in {<<"e", "x", "i", "t">>, <<"q", "u", "i", "t">>}
             THEN /\ pc' = "exited"
                  /\ last' = [op |-> "goodbye"]
                  /\ UNCHANGED <<file, now, ticks, args, cache>>
             ELSE CallSearch(q, "aborted")

\* run_search has returned: back to the top of the while True loop
LoopAgain ==
    /\ pc = "searched"
    /\ pc' = "ready"
    /\ last' = [op |-> "prompt"]
    /\ UNCHANGED <<file, now, ticks, args, cache>>

\* the process has ended: its memory is gone
Exit ==
    /\ pc \in {"exited", "crashed", "aborted"}
    /\ pc' = "off"
    /\ args' = NoArgs
    /\ cache' = EmptySnapshot
    /\ last' = [op |-> "none"]
    /\ UNCHANGED <<file, now, ticks>>

\* KeyboardInterrupt while input() waits
InterruptInput ==
    /\ pc = "ready"
    /\ ~args.oneshot
    /\ pc' = "aborted"
    /\ last' = [op |-> "interrupt"]
    /\ UNCHANGED <<file, now, ticks, args, cache>>

Next ==
    \/ Tick
    \/ Start
    \/ ForceRefresh
    \/ StartupRefresh
    \/ OneShot
    \/ ReadLine
    \/ LoopAgain
    \/ Exit
    \/ InterruptInput

Spec == Init /\ [][Next]_vars

(***************************************************************************)
(* run_search on its own: one call, on every snapshot refresh_cache() may  *)
(* have returned to main, with service answers of up to MaxHits hits.      *)
(***************************************************************************)
AllRefreshEnvs ==
    {RefreshEnv(sec, failing, w) :
        sec \in {"ok", "error"}, failing \in SUBSET SectionKeys, w \in WriteOutcomes}

\* the values cache = refresh_cache() may have
SearchCaches ==
    LET rs == {refresh_cache(f, StartTime, FALSE, env) :
                  f \in InitFiles, env \in AllRefreshEnvs}
    IN {r.ret : r \in {x \in rs : x.raised = "none"}}

InitSearch ==
    /\ file = NoFile
    /\ now = StartTime
    /\ ticks = 0
    /\ pc = "call"
    /\ args \in {a \in ArgSets : a.oneshot}
    /\ cache \in SearchCaches
    /\ last = [op |-> "none"]

\* run_search(title, args, cache)
SearchCall ==
    /\ pc = "call"
    /\ \E title \in Titles :
         \E first \in Answers(MaxHits) :
          \E second \in SecondAnswers(Strip(title), args, first, MaxHits) :
           \E raw \in RawAnswers(Strip(title), args, first, second, MaxHits) :
             LET r == run_search(Strip(title), args, cache, first, second, raw)
             IN /\ last' = [op |-> "search", title |-> Strip(title), r |-> r]
                /\ cache' = r.cache
    /\ pc' = "done"
    /\ UNCHANGED <<file, now, ticks, args>>

NextSearch == SearchCall

SpecSearch == InitSearch /\ [][NextSearch]_vars

(***************************************************************************)
(* search_exact on its own: one call, with every answer the service may    *)
(* give to its one or two requests.                                        *)
(***************************************************************************)
\* the titles search_exact is called with
ExactTitles == Titles \cup {<<"b", " ", "A">>}

InitExact ==
    /\ file = NoFile
    /\ now = StartTime
    /\ ticks = 0
    /\ pc = "call"
    /\ args \in {a \in ArgSets : a.oneshot /\ ~a.fuzzy}
    /\ cache = EmptySnapshot
    /\ last = [op |-> "none"]

\* search_exact(title, section_id=args.section); hits is the result list the
\* filter loop runs over, second what the request of the except block did
ExactCall ==
    /\ pc = "call"
    /\ \E title \in ExactTitles :
         \E first \in Answers(MaxHits) :
          \E second \in SecondAnswers(title, args, first, MaxHits) :
            LET r == search_exact(title, args.section, first, second)
            IN last' = [op |-> "exact", title |-> title,
                        hits |-> IF r.fallback THEN second.hits ELSE first.hits,
                        second |-> second.res, r |-> r]
    /\ pc' = "done"
    /\ UNCHANGED <<file, now, ticks, args, cache>>

NextExact == ExactCall

SpecExact == InitExact /\ [][NextExact]_vars

(***************************************************************************)
(* Well-formed snapshots: {"updated": t, "libraries": {key: entry}} with   *)
(* string keys, each entry with at most MaxItems items.                    *)
(***************************************************************************)
\* the item dicts a snapshot may hold
CachedItems == {CachedItem(M100), CachedItem(M101), CachedItem(S200)}

\* the entries a snapshot may hold for section k
Entries(k) ==
    {[key |-> KeyStr(k), title |-> Section(k).title, type |-> Section(k).type,
      items |-> its] : its \in SeqsUpTo(CachedItems, MaxItems)}

\* the values cache["libraries"] may have: no entry, one, or one for each of
\* two sections in either order
Libraries ==
    {<<>>}
      \cup {<<e>> : e \in Entries(1) \cup Entries(2)}
      \cup {<<d, e>> : d \in Entries(1), e \in Entries(2)}
      \cup {<<e, d>> : d \in Entries(1), e \in Entries(2)}

\* the snapshots taken at time t
Snapshots(t) == {Dict({"updated", "libraries"}, t, libs) : libs \in Libraries}

(***************************************************************************)
(* search_fuzzy on its own: one call on a well-formed snapshot.            *)
(***************************************************************************)
\* the values of --threshold
Thresholds == {40, 50, DefaultThreshold, DefaultThreshold + 1, 100, 101}

InitFuzzy ==
    /\ file = NoFile
    /\ now = StartTime
    /\ ticks = 0
    /\ pc = "call"
    /\ args \in [fuzzy : {TRUE}, section : {None, 1, 3},
                  threshold : Thresholds, oneshot : {TRUE}]
    /\ cache \in Snapshots(StartTime)
    /\ last = [op |-> "none"]

\* search_fuzzy(title, threshold=args.threshold, section_id=args.section,
\* cache=cache); items is the candidate list the scoring loop runs over
FuzzyCall ==
    /\ pc = "call"
    /\ \E title \in Titles :
         LET r == search_fuzzy(title, args.threshold, args.section, cache)
         IN /\ last' = [op |-> "fuzzy", title |-> title,
                        items |-> Candidates(args.section, cache), r |-> r]
            /\ cache' = r.cache
    /\ pc' = "done"
    /\ UNCHANGED <<file, now, ticks, args>>

NextFuzzy == FuzzyCall

SpecFuzzy == InitFuzzy /\ [][NextFuzzy]_vars

(***************************************************************************)
(* save_cache and load_cache on their own: a well-formed snapshot is       *)
(* saved, the file is loaded, deleted by hand, and loaded again.           *)
(***************************************************************************)
InitStore ==
    /\ file \in InitFiles
    /\ now = StartTime
    /\ ticks = 0
    /\ pc = "idle"
    /\ args = NoArgs
    /\ cache \in Snapshots(StartTime) \cup Snapshots(0)
    /\ last = [op |-> "none", w |-> "none"]

\* save_cache(cache)
SaveCall ==
    /\ pc = "idle"
    /\ \E w \in WriteOutcomes :
         /\ file' = save_cache(file, cache, w).file
         /\ last' = [op |-> "save", w |-> w]
    /\ pc' = "saved"
    /\ UNCHANGED <<now, ticks, args, cache>>

\* the cache file is deleted by hand
DeleteFile ==
    /\ pc \in {"idle", "saved", "loaded"}
    /\ file' = NoFile
    /\ last' = [op |-> "delete", w |-> "none"]
    /\ pc' = "deleted"
    /\ UNCHANGED <<now, ticks, args, cache>>

\* load_cache(); after and w are the operation before it
LoadCall ==
    /\ pc \in {"saved", "deleted"}
    /\ last' = [op |-> "load", w |-> last.w, after |-> last.op,
                ret |-> load_cache(file)]
    /\ pc' = IF pc = "saved" THEN "loaded" ELSE "done"
    /\ UNCHANGED <<file, now, ticks, args, cache>>

NextStore ==
    \/ SaveCall
    \/ DeleteFile
    \/ LoadCall

SpecStore == InitStore /\ [][NextStore]_vars

(***************************************************************************)
(* Properties.  last holds the call just made: after refresh_cache,        *)
(*   last.force, last.at (the clock), last.before (the cache file before   *)
(*   the call) and last.r (the result);                                    *)
(* after run_search, last.title and last.r.                                *)
(***************************************************************************)
Refreshed == last.op = "refresh"

Searched == last.op = "search"

\* the loaded value is a dict with an "updated" entry
HasUpdated(c) == c.t = "dict" /\ "updated" \in c.keys

Range(seq) == {seq[i] : i \in 1..Len(seq)}

\* C1, first part: a refresh_cache(force=False) whose loaded snapshot is
\* younger than CACHE_TTL returns the loaded snapshot, calls the service not
\* once and leaves the cache file alone.
C1_HitState ==
    (/\ Refreshed
     /\ ~last.force
     /\ HasUpdated(last.r.loaded)
     /\ last.at - last.r.loaded.updated < CACHE_TTL)
    => /\ last.r.raised = "none"
       /\ last.r.ret = last.r.loaded
       /\ last.r.calls = 0
       /\ last.r.saved = "none"
       /\ file = last.before

\* C1, second part: when refresh_cache has returned a snapshot and the next
\* call, refresh_cache(force=False), comes within CACHE_TTL of it, that call
\* makes no service call and returns the same snapshot.
C1_SecondCall ==
    (/\ pc = "load"
     /\ Refreshed
     /\ last.r.raised = "none"
     /\ pc' \in {"ready", "crashed"}
     /\ last'.at - last.r.ret.updated < CACHE_TTL)
    => /\ last'.r.calls = 0
       /\ last'.r.raised = "none"
       /\ last'.r.ret = last.r.ret

\* C1: within the TTL window refresh_cache(force=False) is a cache hit: the
\* loaded snapshot is returned unchanged, without a service call and without
\* a write; the second of two calls within the window makes no service call.
C1_CacheHit == []C1_HitState /\ [][C1_SecondCall]_vars

\* a cache hit on a snapshot with sections, some time after it was taken
C1_Witness ==
    /\ Refreshed
    /\ ~last.force
    /\ last.r.calls = 0
    /\ last.r.raised = "none"
    /\ last.r.ret.libraries # <<>>
    /\ last.at > last.r.ret.updated

\* C2: refresh_cache starts a rebuild (it calls plex.library.sections()) when
\* force is true, and when force is false and the loaded snapshot's age is
\* CACHE_TTL or more.
C2_RebuildAttempt ==
    (/\ Refreshed
     /\ \/ last.force
        \/ /\ HasUpdated(last.r.loaded)
           /\ last.at - last.r.loaded.updated >= CACHE_TTL)
    => /\ last.r.calls >= 1
       /\ last.r.sections # "none"

\* a rebuild of a snapshot aged exactly CACHE_TTL, without force
C2_Witness ==
    /\ Refreshed
    /\ ~last.force
    /\ HasUpdated(last.r.loaded)
    /\ last.at - last.r.loaded.updated = CACHE_TTL
    /\ last.r.sections = "ok"

\* C3 (as claimed): when plex.library.sections() fails during a rebuild,
\* refresh_cache returns the loaded snapshot and the cache file is unchanged.
C3_StaleOnListFailure ==
    (Refreshed /\ last.r.sections = "error")
    => /\ last.r.raised = "none"
       /\ last.r.ret = last.r.loaded
       /\ file = last.before

\* the sections whose enumeration succeeded
Enumerated(r) == Range(r.listed) \ r.failed

\* C4: the snapshot a rebuild builds holds exactly the listed sections whose
\* enumeration succeeded, each once, in the listed order, each with all of its
\* items.
C4_BestEffortPerSection ==
    (Refreshed /\ last.r.sections = "ok")
    => LET libs == last.r.ret.libraries
       IN /\ {libs[i].key : i \in 1..Len(libs)} = {KeyStr(k) : k \in Enumerated(last.r)}
          /\ Len(libs) = Cardinality(Enumerated(last.r))
          /\ \A i \in 1..Len(libs) : \A k \in Enumerated(last.r) :
                libs[i].key = KeyStr(k) =>
                  /\ Len(libs[i].items) = Len(Section(k).all)
                  /\ \A j \in 1..Len(libs[i].items) :
                        /\ libs[i].items[j].title = Section(k).all[j].title
                        /\ libs[i].items[j].ratingKey = Section(k).all[j].ratingKey

\* the first listed section fails and the second is cached
C4_Witness ==
    /\ Refreshed
    /\ last.r.sections = "ok"
    /\ last.r.raised = "none"
    /\ last.r.failed = {Listing[1]}
    /\ Len(last.r.ret.libraries) = 1
    /\ last.r.ret.libraries[1].key = KeyStr(Listing[2])

\* C5 (as claimed): a failure to write the cache file does not abort the
\* caller: refresh_cache returns the new snapshot and main goes on.
C5_WriteFailureTolerated ==
    (Refreshed /\ last.r.saved \in {"open_fails", "write_fails"})
    => /\ last.r.raised = "none"
       /\ pc # "crashed"

\* the file holds a complete JSON document of a snapshot
SnapshotFile(f) ==
    /\ f.kind = "json"
    /\ f.doc.j = "object"
    /\ {"updated", "libraries"} \subseteq Names(f.doc)

\* C6 (as claimed): for a cache file that is missing, unreadable or not a
\* well-formed snapshot, load_cache returns the empty snapshot and
\* refresh_cache proceeds on it without an error of its own.
C6_LoadDegradesToEmpty ==
    (Refreshed /\ ~SnapshotFile(last.before))
    => /\ last.r.loaded = EmptySnapshot
       /\ (last.r.raised # "none" => last.r.calls > 0)

\* C7 (as claimed): when save_cache is interrupted while it replaces a stored
\* snapshot, a later load_cache returns either the snapshot stored before or
\* the new one.
C7_AtomicWrite ==
    (Refreshed /\ last.r.saved = "interrupt" /\ SnapshotFile(last.before))
    => load_cache(file) \in {load_cache(last.before), last.r.ret}

\* C8 (as claimed): with fuzzy mode on and no exact match, run_search ends in
\* FuzzyFound or FuzzyEmpty, and the raw server search is not issued.
C8_FuzzyIsTerminal ==
    (/\ Searched
     /\ args.fuzzy
     /\ last.r.exactok
     /\ last.r.exact = <<>>)
    => /\ last.r.outcome \in {"FuzzyFound", "FuzzyEmpty"}
       /\ ~last.r.rawcall

\* C9: when search_exact returns matches, run_search ends in ExactFound, prints
\* every match, and calls neither search_fuzzy nor the raw server search.
C9_ExactFound ==
    (Searched /\ last.r.exactok /\ last.r.exact # <<>>)
    => /\ last.r.outcome = "ExactFound"
       /\ last.r.emitted = last.r.exact
       /\ ~last.r.fuzzy
       /\ ~last.r.rawcall

\* two exact matches, printed, with fuzzy mode on
C9_Witness ==
    /\ Searched
    /\ args.fuzzy
    /\ Len(last.r.exact) = 2
    /\ last.r.outcome = "ExactFound"
    /\ Len(last.r.emitted) = 2

\* C10 (as claimed): a query whose service calls all fail ends for that query
\* only: the process goes on (to the next line, or to its normal end).
C10_FailedQueryNotFatal ==
    (Searched /\ ~last.r.exactok /\ last.r.raised = "error")
    => pc \in {"searched", "exited"}

\* search_exact has been called
ExactCalled == last.op = "exact"

\* C11 (as claimed): when the request of the try block fails, search_exact
\* makes the unscoped server-wide request; when that fails too, search_exact
\* does not raise and returns the empty list.
C11_FallbackNeverRaises ==
    (ExactCalled /\ last.r.fallback)
    => /\ last.r.calls = 2
       /\ (last.second = "error" => /\ last.r.raised = "none"
                                    /\ last.r.matches = <<>>)

\* the number of members of seq with that ratingKey
Occurrences(seq, key) == Cardinality({i \in 1..Len(seq) : seq[i].ratingKey = key})

\* C12 (as claimed): every hit whose stripped, lower-cased title equals the
\* stripped, lower-cased query is in the result of search_exact exactly once,
\* whatever else the hits hold, and no other item is in it.
C12_ExactOnce ==
    (ExactCalled /\ last.r.raised = "none")
    => LET q == Lower(Strip(last.title))
       IN /\ \A i \in 1..Len(last.hits) :
                Lower(Strip(last.hits[i].title)) = q
                => Occurrences(last.r.matches, last.hits[i].ratingKey) = 1
          /\ \A i \in 1..Len(last.r.matches) :
                Lower(Strip(last.r.matches[i].title)) = q

\* search_fuzzy has been called
FuzzyCalled == last.op = "fuzzy"

\* a = b on scores
ScoreEq(a, b) == a.num * b.den = b.num * a.den

\* C13: every item search_fuzzy returns carries the score of its title against
\* the query and that score is not below the threshold; on the same query,
\* section and snapshot, a higher threshold returns no more results, and none
\* that the lower one does not return.
C13_ThresholdMonotone ==
    (FuzzyCalled /\ last.r.raised = "none")
    => LET res == last.r.found
           q == Lower(Strip(last.title))
       IN /\ \A i \in 1..Len(res) :
                /\ res[i].score = token_sort_ratio(q, Lower(Strip(res[i].title)))
                /\ res[i].score.num >= args.threshold * res[i].score.den
          /\ \A t \in Thresholds :
                t > args.threshold
                => LET hi == search_fuzzy(last.title, t, args.section, cache).found
                   IN /\ Len(hi) <= Len(res)
                      /\ Range(hi) \subseteq Range(res)

\* a call that drops a candidate, keeps another, and keeps fewer at a higher
\* threshold
C13_Witness ==
    /\ FuzzyCalled
    /\ last.r.found # <<>>
    /\ Len(last.r.found) < Len(last.items)
    /\ \E t \in Thresholds :
          /\ t > args.threshold
          /\ Len(search_fuzzy(last.title, t, args.section, cache).found)
                < Len(last.r.found)

\* C14: a call of run_search (search_exact, then search_fuzzy or the raw
\* search) leaves the in-memory snapshot and the cache file as they were,
\* at every query of a run.
C14_SnapshotReadOnly ==
    [][(pc = "ready" /\ last'.op = "search") => (cache' = cache /\ file' = file)]_vars

\* a query of an interactive session whose fuzzy search took its candidates
\* from the union of two sections
C14_Witness ==
    /\ Searched
    /\ ~args.oneshot
    /\ last.r.outcome = "FuzzyFound"
    /\ args.section = None
    /\ Len(cache.libraries) = 2
    /\ cache = load_cache(file)

\* the ratingKeys of a sequence of items
KeysOf(seq) == [i \in 1..Len(seq) |-> seq[i].ratingKey]

\* C17: the results of search_fuzzy are in descending order of score, and the
\* results of equal score are in the order in which their items are in the
\* candidate list.
C17_SortedStable ==
    (FuzzyCalled /\ last.r.raised = "none")
    => LET res == last.r.found
           q == Lower(Strip(last.title))
           sc(it) == token_sort_ratio(q, Lower(Strip(it.title)))
       IN /\ \A i \in 1..(Len(res) - 1) : ~ScoreGreater(res[i + 1].score, res[i].score)
          /\ \A i \in 1..Len(res) :
                KeysOf(SelectSeq(res, LAMBDA x : ScoreEq(x.score, res[i].score)))
                  = KeysOf(SelectSeq(last.items, LAMBDA it : ScoreEq(sc(it), res[i].score)))

\* three results: the first candidate comes last, two others tie before it
C17_Witness ==
    /\ FuzzyCalled
    /\ Len(last.r.found) = 3
    /\ last.r.found[3].ratingKey = last.items[1].ratingKey
    /\ ScoreEq(last.r.found[1].score, last.r.found[2].score)
    /\ last.r.found[1].ratingKey # last.r.found[2].ratingKey
    /\ ScoreGreater(last.r.found[2].score, last.r.found[3].score)

\* the number of items in the entries before the i-th
RECURSIVE ItemsBefore(_, _)
ItemsBefore(libs, i) ==
    IF i <= 1 THEN 0 ELSE ItemsBefore(libs, i - 1) + Len(libs[i - 1].items)

\* C18: the candidates of search_fuzzy are the items of the section with key
\* str(section_id) when section_id is given and the snapshot has that section,
\* none (and no error) when it is given and the snapshot has not, and the
\* items of every section, section after section, when it is not given.
C18_CandidateSet ==
    FuzzyCalled
    => LET libs == cache.libraries
           present == IF args.section = None THEN {}
                      ELSE {i \in 1..Len(libs) : libs[i].key = KeyStr(args.section)}
       IN /\ last.r.raised = "none"
          /\ last.items = Gather(args.section, cache).items.elems
          /\ (args.section # None /\ present # {})
                => \A i \in present : last.items = libs[i].items
          /\ (args.section # None /\ present = {}) => last.items = <<>>
          /\ args.section = None
                => /\ Len(last.items) = ItemsBefore(libs, Len(libs) + 1)
                   /\ \A i \in 1..Len(libs) : \A j \in 1..Len(libs[i].items) :
                         last.items[ItemsBefore(libs, i) + j] = libs[i].items[j]

\* no section_id, two sections with items: the candidates are all of them
C18_Witness ==
    /\ FuzzyCalled
    /\ args.section = None
    /\ Len(cache.libraries) = 2
    /\ cache.libraries[1].items # <<>>
    /\ cache.libraries[2].items # <<>>
    /\ Len(last.items) = Len(cache.libraries[1].items) + Len(cache.libraries[2].items)

\* C15 (as claimed): an interrupt during a refresh_cache call of main, during
\* a run_search call, or while input() waits, ends the run with the final
\* message of main's KeyboardInterrupt handler.
C15_InterruptEndsCleanly ==
    (IF last.op \in {"refresh", "search"} THEN last.r.raised = "interrupt"
     ELSE last.op = "interrupt")
    => pc = "aborted"

\* C16: load_cache after a save_cache(s) that returned gives s, and load_cache
\* after the file was deleted gives the empty snapshot.
C16_RoundTrip ==
    /\ (last.op = "load" /\ last.after = "save" /\ last.w = "ok")
          => last.ret = cache
    /\ (last.op = "load" /\ last.after = "delete")
          => last.ret = EmptySnapshot

\* a snapshot of two sections, with an item without a year, written over a
\* file that was not a snapshot, and loaded
C16_Witness ==
    /\ last.op = "load"
    /\ last.after = "save"
    /\ last.w = "ok"
    /\ Len(last.ret.libraries) = 2
    /\ \E i \in 1..2 : \E j \in 1..Len(last.ret.libraries[i].items) :
          last.ret.libraries[i].items[j].year = {}
    /\ last.ret.updated = StartTime
    /\ SnapshotFile(file)

\* C19 (as claimed): when run_search calls search_fuzzy, the snapshot it
\* passes (a well-formed one) is younger than CACHE_TTL.
C19_BoundedStaleness ==
    (/\ Searched
     /\ last.r.fuzzy
     /\ last.r.raised = "none"
     /\ cache.keys = {"updated", "libraries"})
    => now - cache.updated < CACHE_TTL

\* C20: a refresh_cache call that rebuilds and returns has written the
\* snapshot it returns, whose updated is the time of the call, to the cache
\* file; when every section failed that snapshot has no section; and a
\* refresh_cache() less than CACHE_TTL later returns it without a service call.
C20_PersistedBeforeReturn ==
    (Refreshed /\ last.r.sections = "ok" /\ last.r.raised = "none")
    => /\ last.r.saved = "ok"
       /\ SnapshotFile(file)
       /\ load_cache(file) = last.r.ret
       /\ last.r.ret.updated = last.at
       /\ (Range(last.r.listed) \subseteq last.r.failed
             => last.r.ret.libraries = <<>>)
       /\ \A d \in {0, 1, CACHE_TTL - 1, CACHE_TTL} :
             LET again == refresh_cache(file, last.at + d, FALSE, NoEnv)
             IN d < CACHE_TTL => /\ again.raised = "none"
                                 /\ again.calls = 0
                                 /\ again.ret = last.r.ret

\* every section failed: a stored snapshot with sections is replaced by one
\* without
C20_Witness ==
    /\ Refreshed
    /\ last.r.sections = "ok"
    /\ last.r.raised = "none"
    /\ last.r.failed = Range(last.r.listed)
    /\ SnapshotFile(last.before)
    /\ load_cache(last.before).libraries # <<>>
    /\ load_cache(file).libraries = <<>>
    /\ load_cache(file).updated = last.at

====
